---- MODULE Spec2Model ----
(***************************************************************************)
(* The escrow program's instruction processor (src/src/processor.rs) and   *)
(* its record (src/src/state.rs), run by a ledger host that commits an     *)
(* instruction's account changes when it returns Ok and discards them      *)
(* otherwise.                                                              *)
(*                                                                         *)
(* A u64 is kept as its eight base-256 digits, most significant first, so  *)
(* that 2^64-1 is representable; the wire and the record hold it little    *)
(* endian.  A Pubkey is its 32 bytes.                                      *)
(***************************************************************************)
EXTENDS Integers, Sequences, FiniteSets, TLC

(* ---------------------------------------------------------------- bounds *)

\* The rent sysvar's lamports_per_byte_year ranges over 1..MaxRentRate.
MaxRentRate == 2
\* An instruction payload carries up to MaxTrailing bytes after the amount.
MaxTrailing == 1

(* ------------------------------------------------------------- constants *)

PUBKEY_BYTES == 32
U64_BYTES == 8
\* solana_program::rent::ACCOUNT_STORAGE_OVERHEAD
ACCOUNT_STORAGE_OVERHEAD == 128
\* solana_program::rent::DEFAULT_EXEMPTION_THRESHOLD (2.0)
EXEMPTION_THRESHOLD == 2

Byte == 0..255

Pubkey(n) == [i \in 1..PUBKEY_BYTES |-> n]

\* Pubkey::default(): what a zeroed record holds.
ZeroKey == Pubkey(0)

Wallets == {"alice", "bob"}
TokenAccounts == {"tokA", "tokB", "recv"}
EscrowAccounts == {"esc1", "esc2", "escShort"}
Accounts == Wallets \cup TokenAccounts \cup EscrowAccounts
                \cup {"rentSysvar", "tokenProgram", "escrowProgram"}

KeyId ==
    [a \in Accounts |->
        CASE a = "alice" -> 1
          [] a = "bob" -> 2
          [] a = "tokA" -> 3
          [] a = "tokB" -> 4
          [] a = "recv" -> 5
          [] a = "esc1" -> 6
          [] a = "esc2" -> 7
          [] a = "escShort" -> 8
          [] a = "rentSysvar" -> 9
          [] a = "tokenProgram" -> 10
          [] a = "escrowProgram" -> 11]

\* AccountInfo.key
Key(a) == Pubkey(KeyId[a])

\* spl_token::id()
spl_token_id == Key("tokenProgram")
\* sysvar::rent::id()
rent_id == Key("rentSysvar")
\* The system program's id (owner of wallets and sysvars here).
system_program_id == Pubkey(12)
\* The program id the host passes to process: this program's own.
program_id == Key("escrowProgram")

(* ------------------------------------------------------------------- u64 *)

Reverse(s) == [i \in 1..Len(s) |-> s[Len(s) + 1 - i]]

\* u64::from_le_bytes / u64::to_le_bytes
from_le_bytes(bytes) == Reverse(bytes)
to_le_bytes(v) == Reverse(v)

U64_ZERO == [i \in 1..U64_BYTES |-> 0]
U64_MAX == [i \in 1..U64_BYTES |-> 255]
\* 1_000_000 = 0x0F4240
U64_MILLION == <<0, 0, 0, 0, 0, 15, 66, 64>>
Amounts == {U64_ZERO, U64_MILLION, U64_MAX}

(* ------------------------------------------------------- the Escrow record *)

\* state.rs: struct Escrow
EscrowRecord(is_init, initializer_pubkey, temp_pubkey, receive_pubkey, amount) ==
    [is_initialized |-> is_init,
     initializer_pubkey |-> initializer_pubkey,
     temp_token_account_pubkey |-> temp_pubkey,
     initializer_token_to_receive_account_pubkey |-> receive_pubkey,
     expected_amount |-> amount]

\* Escrow::LEN: flag, three keys, amount.
Escrow_LEN == 1 + PUBKEY_BYTES + PUBKEY_BYTES + PUBKEY_BYTES + U64_BYTES

Zeroes(n) == [i \in 1..n |-> 0]

\* Escrow::unpack_from_slice: the fixed positional layout.
unpack_from_slice(src) ==
    LET flag == src[1] IN
    IF flag \notin {0, 1}
    THEN [err |-> "InvalidAccountData"]
    ELSE [err |-> "Ok",
          val |-> EscrowRecord(
                    flag = 1,
                    SubSeq(src, 2, 1 + PUBKEY_BYTES),
                    SubSeq(src, 2 + PUBKEY_BYTES, 1 + 2 * PUBKEY_BYTES),
                    SubSeq(src, 2 + 2 * PUBKEY_BYTES, 1 + 3 * PUBKEY_BYTES),
                    from_le_bytes(SubSeq(src, 2 + 3 * PUBKEY_BYTES, Escrow_LEN)))]

\* Escrow::pack_into_slice
pack_into_slice(e) ==
    <<IF e.is_initialized THEN 1 ELSE 0>>
        \o e.initializer_pubkey
        \o e.temp_token_account_pubkey
        \o e.initializer_token_to_receive_account_pubkey
        \o to_le_bytes(e.expected_amount)

\* Pack::unpack_unchecked: the length test, then unpack_from_slice.
unpack_unchecked(input) ==
    IF Len(input) # Escrow_LEN
    THEN [err |-> "InvalidAccountData"]
    ELSE unpack_from_slice(input)

\* Variant: the length test left out.
pack_any_length(src, dst) == [err |-> "Ok", val |-> pack_into_slice(src)]

\* Pack::pack: the length test, then pack_into_slice over dst.
pack(src, dst) ==
    IF Len(dst) # Escrow_LEN
    THEN [err |-> "InvalidAccountData"]
    ELSE [err |-> "Ok", val |-> pack_into_slice(src)]

\* IsInitialized::is_initialized
is_initialized(e) == e.is_initialized

(* ----------------------------------------------------------- instruction *)

\* EscrowInstruction::unpack: a tag byte, then the amount, little endian.
unpack(input) ==
    IF Len(input) = 0
    THEN [err |-> "InvalidInstructionData"]
    ELSE IF input[1] # 0
    THEN [err |-> "InvalidInstructionData"]
    ELSE IF Len(input) < 1 + U64_BYTES
    THEN [err |-> "InvalidInstructionData"]
    ELSE [err |-> "Ok",
          val |-> [tag |-> "InitEscrow",
                   amount |-> from_le_bytes(SubSeq(input, 2, 1 + U64_BYTES))]]

(* ------------------------------------------------------------------ state *)

VARIABLES
    lamports,        \* [Accounts -> Nat]: each account's balance
    owner,           \* [Accounts -> Pubkey]: the program that owns each account
    data,            \* [EscrowAccounts -> Seq(Byte)]: the record buffers
    tokenAuthority,  \* [TokenAccounts -> Pubkey]: each token account's authority
    rent_sysvar,     \* the Rent the sysvar account holds
    pc,              \* "idle" | "returned": the host between and after a call
    last,            \* the invocation that returned: its inputs and what it did
    codec            \* a record and a buffer put through pack and unpack_unchecked

vars == <<lamports, owner, data, tokenAuthority, rent_sysvar, pc, last, codec>>

(* ------------------------------------------------------- collaborators *)

\* An AccountInfo as the handler reads it: which account, and its signer flag.
AccountInfo(a, signer) == [acct |-> a, is_signer |-> signer]

\* Rent::from_account_info: only the rent sysvar account decodes to a Rent.
Rent_from_account_info(account_info) ==
    IF Key(account_info.acct) # rent_id
    THEN [err |-> "InvalidArgument"]
    ELSE [err |-> "Ok", val |-> rent_sysvar]

\* Rent::minimum_balance
minimum_balance(rent, data_len) ==
    (ACCOUNT_STORAGE_OVERHEAD + data_len)
        * rent.lamports_per_byte_year * rent.exemption_threshold

\* Rent::is_exempt
is_exempt(rent, balance, data_len) == balance >= minimum_balance(rent, data_len)

\* Pubkey::find_program_address: a function of the seed and the program id
\* alone, off the curve (no wallet holds its key).
find_program_address(seed, pid) ==
    [i \in 1..PUBKEY_BYTES |->
        IF i = 1 THEN 255
        ELSE IF i = 2 THEN (IF seed = "escrow" THEN 101 ELSE 0)
        ELSE pid[i]]

\* spl_token::instruction::set_authority: builds the instruction, after
\* check_program_account on the program id it is given.
set_authority(token_program_id, owned_pubkey, new_authority_pubkey, authority_type, owner_pubkey, signer_pubkeys) ==
    IF token_program_id # spl_token_id
    THEN [err |-> "IncorrectProgramId"]
    ELSE [err |-> "Ok",
          val |-> [program_id |-> token_program_id,
                   account |-> owned_pubkey,
                   new_authority |-> new_authority_pubkey,
                   authority_type |-> authority_type,
                   owner |-> owner_pubkey,
                   signers |-> signer_pubkeys]]

\* The custody service's SetAuthority on token-account state tok: the target
\* must be a token account, the named owner its present authority, and that
\* owner a signer of the call.
token_process_set_authority(instruction, signed, tok) ==
    LET targets == {t \in TokenAccounts : Key(t) = instruction.account} IN
    IF targets = {}
    THEN [err |-> "InvalidAccountData"]
    ELSE LET t == CHOOSE x \in targets : TRUE IN
         IF tok[t] # instruction.owner
         THEN [err |-> "OwnerMismatch"]
         ELSE IF instruction.owner \notin signed
         THEN [err |-> "MissingRequiredSignature"]
         ELSE [err |-> "Ok",
               val |-> [tok EXCEPT ![t] = instruction.new_authority]]

\* program::invoke: the nested call, with the signer privileges the caller's
\* account references carry.
invoke(instruction, account_infos, tok) ==
    token_process_set_authority(
        instruction,
        {Key(account_infos[i].acct) :
            i \in {j \in 1..Len(account_infos) : account_infos[j].is_signer}},
        tok)

(* -------------------------------------------------------------- handler *)

\* What one invocation did: its result, how many account references it took
\* from the list, the record buffers and token authorities as it left them
\* (before the host commits or discards them), and the nested calls it made.
Outcome(result, consumed, d, tok, cpi) ==
    [result |-> result, consumed |-> consumed, data |-> d, token |-> tok,
     cpi |-> cpi]

\* Variant: the signer test left out.
signer_missing_skipped(initializer) == FALSE

\* processor.rs 44-46: the initializer must have signed.
signer_missing(initializer) == ~initializer.is_signer

\* Variant: the owner test left out.
not_token_owned_skipped(token_to_receive_account) == FALSE

\* processor.rs 57-59: the account to receive must be the token program's.
not_token_owned(token_to_receive_account) ==
    owner[token_to_receive_account.acct] # spl_token_id

\* Variant: the rent test left out.
not_rent_exempt_skipped(rent, escrow_account) == FALSE

\* processor.rs 69-71: the record account must be rent exempt.
not_rent_exempt(rent, escrow_account) ==
    ~is_exempt(rent, lamports[escrow_account.acct],
               Len(data[escrow_account.acct]))

\* Variant: the initialized test left out.
already_initialized_never(escrow_info) == FALSE

\* processor.rs 74-76: the record must not be initialized yet.
already_initialized(escrow_info) == is_initialized(escrow_info)

\* Variant: the two token account keys stored in each other's field.
populate_swapped(escrow_info, initializer, temp_token_account, token_to_receive_account, amount) ==
    [escrow_info EXCEPT
        !.is_initialized = TRUE,
        !.initializer_pubkey = Key(initializer.acct),
        !.temp_token_account_pubkey = Key(token_to_receive_account.acct),
        !.initializer_token_to_receive_account_pubkey =
            Key(temp_token_account.acct),
        !.expected_amount = amount]

\* Variant: the key of the account to receive is left as it was.
populate_partial(escrow_info, initializer, temp_token_account, token_to_receive_account, amount) ==
    [escrow_info EXCEPT
        !.is_initialized = TRUE,
        !.initializer_pubkey = Key(initializer.acct),
        !.temp_token_account_pubkey = Key(temp_token_account.acct),
        !.expected_amount = amount]

\* processor.rs 79-83: the record the handler builds.
populate(escrow_info, initializer, temp_token_account, token_to_receive_account, amount) ==
    [escrow_info EXCEPT
        !.is_initialized = TRUE,
        !.initializer_pubkey = Key(initializer.acct),
        !.temp_token_account_pubkey = Key(temp_token_account.acct),
        !.initializer_token_to_receive_account_pubkey =
            Key(token_to_receive_account.acct),
        !.expected_amount = amount]

\* Variant: the initializer, not the derived address, as the new authority.
owner_change_instruction_to_initializer(token_program, temp_token_account, pda, initializer) ==
    set_authority(Key(token_program.acct), Key(temp_token_account.acct),
                  Key(initializer.acct), "AccountOwner", Key(initializer.acct),
                  <<Key(initializer.acct)>>)

\* processor.rs 91-98: the authority change the handler asks for.
owner_change_instruction(token_program, temp_token_account, pda, initializer) ==
    set_authority(Key(token_program.acct), Key(temp_token_account.acct), pda,
                  "AccountOwner", Key(initializer.acct),
                  <<Key(initializer.acct)>>)

\* Variant: the nested call's failure dropped instead of propagated.
authority_handoff_ignoring_failure(accounts, pid, initializer, temp_token_account, d) ==
    LET pda == find_program_address("escrow", pid) IN
    IF Len(accounts) < 6
    THEN Outcome("NotEnoughAccountKeys", 5, d, tokenAuthority, <<>>)
    ELSE
    LET token_program == accounts[6]
        ix == set_authority(Key(token_program.acct),
                            Key(temp_token_account.acct), pda, "AccountOwner",
                            Key(initializer.acct), <<Key(initializer.acct)>>)
    IN
    IF ix.err # "Ok"
    THEN Outcome(ix.err, 6, d, tokenAuthority, <<>>)
    ELSE
    LET called == invoke(ix.val,
                         <<temp_token_account, initializer, token_program>>,
                         tokenAuthority)
    IN
    Outcome("Ok", 6, d,
            IF called.err = "Ok" THEN called.val ELSE tokenAuthority,
            <<ix.val>>)

\* Variant: the token program's id used as a constant, no sixth account taken.
authority_handoff_without_program_account(accounts, pid, initializer, temp_token_account, d) ==
    LET pda == find_program_address("escrow", pid)
        ix == set_authority(spl_token_id, Key(temp_token_account.acct), pda,
                            "AccountOwner", Key(initializer.acct),
                            <<Key(initializer.acct)>>)
        called == invoke(ix.val, <<temp_token_account, initializer>>,
                         tokenAuthority)
    IN
    IF called.err # "Ok"
    THEN Outcome(called.err, 5, d, tokenAuthority, <<ix.val>>)
    ELSE Outcome("Ok", 5, d, called.val, <<ix.val>>)

\* Variant: the address derived from the initializer's key, not the program's.
authority_handoff_per_initializer(accounts, pid, initializer, temp_token_account, d) ==
    LET pda == find_program_address("escrow", Key(initializer.acct)) IN
    IF Len(accounts) < 6
    THEN Outcome("NotEnoughAccountKeys", 5, d, tokenAuthority, <<>>)
    ELSE
    LET token_program == accounts[6]
        ix == set_authority(Key(token_program.acct),
                            Key(temp_token_account.acct), pda, "AccountOwner",
                            Key(initializer.acct), <<Key(initializer.acct)>>)
    IN
    IF ix.err # "Ok"
    THEN Outcome(ix.err, 6, d, tokenAuthority, <<>>)
    ELSE
    LET called == invoke(ix.val,
                         <<temp_token_account, initializer, token_program>>,
                         tokenAuthority)
    IN
    IF called.err # "Ok"
    THEN Outcome(called.err, 6, d, tokenAuthority, <<ix.val>>)
    ELSE Outcome("Ok", 6, d, called.val, <<ix.val>>)

\* Variant: the account to receive, not the temporary one, is handed over.
authority_handoff_wrong_target(accounts, pid, initializer, temp_token_account, d) ==
    LET pda == find_program_address("escrow", pid) IN
    IF Len(accounts) < 6
    THEN Outcome("NotEnoughAccountKeys", 5, d, tokenAuthority, <<>>)
    ELSE
    LET token_program == accounts[6]
        ix == set_authority(Key(token_program.acct), Key(accounts[3].acct),
                            pda, "AccountOwner", Key(initializer.acct),
                            <<Key(initializer.acct)>>)
    IN
    IF ix.err # "Ok"
    THEN Outcome(ix.err, 6, d, tokenAuthority, <<>>)
    ELSE
    LET called == invoke(ix.val,
                         <<accounts[3], initializer, token_program>>,
                         tokenAuthority)
    IN
    IF called.err # "Ok"
    THEN Outcome(called.err, 6, d, tokenAuthority, <<ix.val>>)
    ELSE Outcome("Ok", 6, d, called.val, <<ix.val>>)

\* Variant: the temporary account must be the initializer's before the call.
authority_handoff_checking_holder(accounts, pid, initializer, temp_token_account, d) ==
    LET pda == find_program_address("escrow", pid) IN
    IF Len(accounts) < 6
    THEN Outcome("NotEnoughAccountKeys", 5, d, tokenAuthority, <<>>)
    ELSE IF /\ temp_token_account.acct \in TokenAccounts
            /\ tokenAuthority[temp_token_account.acct] # Key(initializer.acct)
    THEN Outcome("IllegalOwner", 6, d, tokenAuthority, <<>>)
    ELSE
    LET token_program == accounts[6]
        ix == set_authority(Key(token_program.acct),
                            Key(temp_token_account.acct), pda, "AccountOwner",
                            Key(initializer.acct), <<Key(initializer.acct)>>)
    IN
    IF ix.err # "Ok"
    THEN Outcome(ix.err, 6, d, tokenAuthority, <<>>)
    ELSE
    LET called == invoke(ix.val,
                         <<temp_token_account, initializer, token_program>>,
                         tokenAuthority)
    IN
    IF called.err # "Ok"
    THEN Outcome(called.err, 6, d, tokenAuthority, <<ix.val>>)
    ELSE Outcome("Ok", 6, d, called.val, <<ix.val>>)

\* Variant: the nested call's failure reported as InvalidArgument.
authority_handoff_remapping_failure(accounts, pid, initializer, temp_token_account, d) ==
    LET pda == find_program_address("escrow", pid) IN
    IF Len(accounts) < 6
    THEN Outcome("NotEnoughAccountKeys", 5, d, tokenAuthority, <<>>)
    ELSE
    LET token_program == accounts[6]
        ix == set_authority(Key(token_program.acct),
                            Key(temp_token_account.acct), pda, "AccountOwner",
                            Key(initializer.acct), <<Key(initializer.acct)>>)
    IN
    IF ix.err # "Ok"
    THEN Outcome(ix.err, 6, d, tokenAuthority, <<>>)
    ELSE
    LET called == invoke(ix.val,
                         <<temp_token_account, initializer, token_program>>,
                         tokenAuthority)
    IN
    IF called.err # "Ok"
    THEN Outcome("InvalidArgument", 6, d, tokenAuthority, <<ix.val>>)
    ELSE Outcome("Ok", 6, d, called.val, <<ix.val>>)

\* processor.rs 87-110: derive the address, take the token program account,
\* build the instruction, invoke it; d is the record buffers after the pack.
authority_handoff(accounts, pid, initializer, temp_token_account, d) ==
    LET pda == find_program_address("escrow", pid) IN
    IF Len(accounts) < 6
    THEN Outcome("NotEnoughAccountKeys", 5, d, tokenAuthority, <<>>)
    ELSE
    LET token_program == accounts[6]
        ix == owner_change_instruction(token_program, temp_token_account,
                                       pda, initializer)
    IN
    IF ix.err # "Ok"
    THEN Outcome(ix.err, 6, d, tokenAuthority, <<>>)
    ELSE
    LET called == invoke(ix.val,
                         <<temp_token_account, initializer, token_program>>,
                         tokenAuthority)
    IN
    IF called.err # "Ok"
    THEN Outcome(called.err, 6, d, tokenAuthority, <<ix.val>>)
    ELSE Outcome("Ok", 6, d, called.val, <<ix.val>>)

\* Variant: the signer test moved after the owner test.
process_init_escrow_owner_first(accounts, amount, pid) ==
    IF Len(accounts) < 1
    THEN Outcome("NotEnoughAccountKeys", 0, data, tokenAuthority, <<>>)
    ELSE
    LET initializer == accounts[1] IN
    IF Len(accounts) < 2
    THEN Outcome("NotEnoughAccountKeys", 1, data, tokenAuthority, <<>>)
    ELSE
    LET temp_token_account == accounts[2] IN
    IF Len(accounts) < 3
    THEN Outcome("NotEnoughAccountKeys", 2, data, tokenAuthority, <<>>)
    ELSE
    LET token_to_receive_account == accounts[3] IN
    IF not_token_owned(token_to_receive_account)
    THEN Outcome("IncorrectProgramId", 3, data, tokenAuthority, <<>>)
    ELSE IF signer_missing(initializer)
    THEN Outcome("MissingRequiredSignature", 3, data, tokenAuthority, <<>>)
    ELSE IF Len(accounts) < 4
    THEN Outcome("NotEnoughAccountKeys", 3, data, tokenAuthority, <<>>)
    ELSE
    LET escrow_account == accounts[4] IN
    IF Len(accounts) < 5
    THEN Outcome("NotEnoughAccountKeys", 4, data, tokenAuthority, <<>>)
    ELSE
    LET rent == Rent_from_account_info(accounts[5]) IN
    IF rent.err # "Ok"
    THEN Outcome(rent.err, 5, data, tokenAuthority, <<>>)
    ELSE IF not_rent_exempt(rent.val, escrow_account)
    THEN Outcome("AccountNotRentExempt", 5, data, tokenAuthority, <<>>)
    ELSE
    LET unpacked == unpack_unchecked(data[escrow_account.acct]) IN
    IF unpacked.err # "Ok"
    THEN Outcome(unpacked.err, 5, data, tokenAuthority, <<>>)
    ELSE IF already_initialized(unpacked.val)
    THEN Outcome("AccountAlreadyInitialized", 5, data, tokenAuthority, <<>>)
    ELSE
    LET escrow_info == populate(unpacked.val, initializer, temp_token_account,
                                token_to_receive_account, amount)
        packed == pack(escrow_info, data[escrow_account.acct])
    IN
    IF packed.err # "Ok"
    THEN Outcome(packed.err, 5, data, tokenAuthority, <<>>)
    ELSE authority_handoff(accounts, pid, initializer, temp_token_account,
                           [data EXCEPT ![escrow_account.acct] = packed.val])

\* Processor::process_init_escrow
process_init_escrow(accounts, amount, pid) ==
    IF Len(accounts) < 1
    THEN Outcome("NotEnoughAccountKeys", 0, data, tokenAuthority, <<>>)
    ELSE
    LET initializer == accounts[1] IN
    IF signer_missing(initializer)
    THEN Outcome("MissingRequiredSignature", 1, data, tokenAuthority, <<>>)
    ELSE IF Len(accounts) < 2
    THEN Outcome("NotEnoughAccountKeys", 1, data, tokenAuthority, <<>>)
    ELSE
    LET temp_token_account == accounts[2] IN
    IF Len(accounts) < 3
    THEN Outcome("NotEnoughAccountKeys", 2, data, tokenAuthority, <<>>)
    ELSE
    LET token_to_receive_account == accounts[3] IN
    IF not_token_owned(token_to_receive_account)
    THEN Outcome("IncorrectProgramId", 3, data, tokenAuthority, <<>>)
    ELSE IF Len(accounts) < 4
    THEN Outcome("NotEnoughAccountKeys", 3, data, tokenAuthority, <<>>)
    ELSE
    LET escrow_account == accounts[4] IN
    IF Len(accounts) < 5
    THEN Outcome("NotEnoughAccountKeys", 4, data, tokenAuthority, <<>>)
    ELSE
    LET rent == Rent_from_account_info(accounts[5]) IN
    IF rent.err # "Ok"
    THEN Outcome(rent.err, 5, data, tokenAuthority, <<>>)
    ELSE IF not_rent_exempt(rent.val, escrow_account)
    THEN Outcome("AccountNotRentExempt", 5, data, tokenAuthority, <<>>)
    ELSE
    LET unpacked == unpack_unchecked(data[escrow_account.acct]) IN
    IF unpacked.err # "Ok"
    THEN Outcome(unpacked.err, 5, data, tokenAuthority, <<>>)
    ELSE IF already_initialized(unpacked.val)
    THEN Outcome("AccountAlreadyInitialized", 5, data, tokenAuthority, <<>>)
    ELSE
    LET escrow_info == populate(unpacked.val, initializer, temp_token_account,
                                token_to_receive_account, amount)
        packed == pack(escrow_info, data[escrow_account.acct])
    IN
    IF packed.err # "Ok"
    THEN Outcome(packed.err, 5, data, tokenAuthority, <<>>)
    ELSE authority_handoff(accounts, pid, initializer, temp_token_account,
                           [data EXCEPT ![escrow_account.acct] = packed.val])

\* Variant: a payload that does not decode is run as InitEscrow of amount 0.
process_lenient(pid, accounts, instruction_data) ==
    LET instruction == unpack(instruction_data) IN
    IF instruction.err # "Ok"
    THEN process_init_escrow(accounts, U64_ZERO, pid)
    ELSE process_init_escrow(accounts, instruction.val.amount, pid)

\* Processor::process
process(pid, accounts, instruction_data) ==
    LET instruction == unpack(instruction_data) IN
    IF instruction.err # "Ok"
    THEN Outcome(instruction.err, 0, data, tokenAuthority, <<>>)
    ELSE process_init_escrow(accounts, instruction.val.amount, pid)

(* --------------------------------------------------------------- inputs *)

\* The account references a caller may put at each position of the list.
\* Only the initializer's signer flag is read by the handler.  References are
\* taken to be writable, and the record accounts to be owned by this program,
\* as the host requires for the handler's write and nested call to stand.
Pos1 == {AccountInfo("alice", TRUE), AccountInfo("alice", FALSE), AccountInfo("bob", TRUE)}
Pos2 == {AccountInfo(t, FALSE) : t \in {"tokA", "tokB", "bob"}}
Pos3 == {AccountInfo(a, FALSE) : a \in {"recv", "alice"}}
Pos4 == {AccountInfo(e, FALSE) : e \in EscrowAccounts}
Pos5 == {AccountInfo(a, FALSE) : a \in {"rentSysvar", "alice"}}
Pos6 == {AccountInfo(a, FALSE) : a \in {"tokenProgram", "alice"}}

FullLists == Pos1 \X Pos2 \X Pos3 \X Pos4 \X Pos5 \X Pos6

\* Every list of 0 to 6 references.
AccountLists == {SubSeq(f, 1, n) : f \in FullLists, n \in 0..6}

Trailing == {[i \in 1..n |-> 7] : n \in 0..MaxTrailing}

\* Well-formed payloads: tag 0, the amount little endian, then anything.
GoodPayloads ==
    {<<0>> \o to_le_bytes(a) : a \in Amounts}
        \cup {<<0>> \o to_le_bytes(U64_MILLION) \o t : t \in Trailing}

\* Malformed ones: empty, a cut amount, an unknown tag.
BadPayloads == {<<>>, <<0, 64, 66, 15>>, <<1>> \o to_le_bytes(U64_MILLION)}

Payloads == GoodPayloads \cup BadPayloads

(* ----------------------------------------------------------------- ledger *)

\* A buffer one byte short of the record.
ShortLen == Escrow_LEN - 1

Rent(rate) ==
    [lamports_per_byte_year |-> rate, exemption_threshold |-> EXEMPTION_THRESHOLD]

\* The codec on its own is not exercised while the processor runs.
NoCodec ==
    [stage |-> "none", record |-> <<>>, original |-> <<>>, buffer |-> <<>>,
     packed |-> "None", unpacked |-> "None", decoded |-> <<>>]

NoCall ==
    [accounts |-> <<>>, instruction_data |-> <<>>, result |-> "None",
     consumed |-> 0, written |-> {}, cpi |-> <<>>]

\* esc1 is rent exempt at every rate; esc2 and escShort only at the lowest.
LedgerInit ==
    /\ lamports =
         [a \in Accounts |->
            CASE a = "esc1" -> minimum_balance(Rent(MaxRentRate), Escrow_LEN)
              [] a = "esc2" -> minimum_balance(Rent(1), Escrow_LEN)
              [] a = "escShort" -> minimum_balance(Rent(1), ShortLen)
              [] OTHER -> 1]
    /\ owner =
         [a \in Accounts |->
            IF a \in TokenAccounts THEN spl_token_id
            ELSE IF a \in EscrowAccounts THEN program_id
            ELSE system_program_id]
    /\ data =
         [e \in EscrowAccounts |->
            IF e = "escShort" THEN Zeroes(ShortLen) ELSE Zeroes(Escrow_LEN)]
    /\ tokenAuthority =
         [t \in TokenAccounts |-> IF t = "tokB" THEN Key("bob") ELSE Key("alice")]
    /\ rent_sysvar \in {Rent(r) : r \in 1..MaxRentRate}
    /\ pc = "idle"
    /\ last = NoCall

Init == LedgerInit /\ codec = NoCodec

(* ---------------------------------------------------------------- actions *)

\* The host runs one instruction: the handler's account changes and nested
\* call take effect when it returns Ok, and are discarded otherwise.
Process(accounts, instruction_data) ==
    /\ pc = "idle"
    /\ LET out == process(program_id, accounts, instruction_data) IN
       /\ last' = [accounts |-> accounts,
                   instruction_data |-> instruction_data,
                   result |-> out.result,
                   consumed |-> out.consumed,
                   written |-> {<<e, out.data[e]>> :
                                  e \in {x \in EscrowAccounts : out.data[x] # data[x]}},
                   cpi |-> out.cpi]
       /\ IF out.result = "Ok"
          THEN /\ data' = out.data
               /\ tokenAuthority' = out.token
          ELSE UNCHANGED <<data, tokenAuthority>>
    /\ pc' = "returned"
    /\ UNCHANGED <<lamports, owner, rent_sysvar, codec>>

\* The result reaches the caller; nothing of the invocation is kept.
Return ==
    /\ pc = "returned"
    /\ pc' = "idle"
    /\ last' = NoCall
    /\ UNCHANGED <<lamports, owner, data, tokenAuthority, rent_sysvar, codec>>

\* A wallet calls the custody service itself to hand a token account on
\* (tokA goes from wallet to wallet; tokB stays with bob until escrowed).
TokenSetAuthority(w, t, new_authority) ==
    /\ pc = "idle"
    /\ LET ix == set_authority(spl_token_id, Key(t), new_authority,
                               "AccountOwner", Key(w), <<Key(w)>>)
           called == token_process_set_authority(ix.val, {Key(w)}, tokenAuthority)
       IN /\ called.err = "Ok"
          /\ tokenAuthority' = called.val
    /\ UNCHANGED <<lamports, owner, data, rent_sysvar, pc, last, codec>>

\* The cluster changes the rent rate.
RentUpdate(rate) ==
    /\ pc = "idle"
    /\ rent_sysvar # Rent(rate)
    /\ rent_sysvar' = Rent(rate)
    /\ UNCHANGED <<lamports, owner, data, tokenAuthority, pc, last, codec>>

Next ==
    \/ /\ pc = "idle"
       /\ \E accounts \in AccountLists, instruction_data \in Payloads :
             Process(accounts, instruction_data)
    \/ Return
    \/ /\ pc = "idle"
       /\ \E w \in Wallets, v \in Wallets :
             TokenSetAuthority(w, "tokA", Key(v))
    \/ /\ pc = "idle"
       /\ \E rate \in 1..MaxRentRate : RentUpdate(rate)

Spec == Init /\ [][Next]_vars

(* ------------------------------------------------------ the codec alone *)

\* Keys a record may hold: the zero key, a wallet's, a derived address.
KeySamples ==
    {ZeroKey, Key("alice"), find_program_address("escrow", program_id)}

\* Every record over the sampled keys and amounts, either flag.
RecordSamples ==
    {EscrowRecord(f, k1, k2, k3, amt) :
        f \in BOOLEAN, k1 \in KeySamples, k2 \in KeySamples,
        k3 \in {ZeroKey, Key("alice")}, amt \in Amounts}

\* Buffers shorter than, as long as and longer than the record, zeroed or not.
BufferSamples ==
    {[i \in 1..n |-> b] : n \in {ShortLen, Escrow_LEN, Escrow_LEN + 1}, b \in {0, 9}}

CodecInit ==
    /\ LedgerInit
    /\ \E r \in RecordSamples, buf \in BufferSamples :
          codec = [NoCodec EXCEPT !.stage = "input", !.record = r,
                                  !.original = buf, !.buffer = buf]

\* Escrow::pack(record, &mut buffer), as at processor.rs 85.
Encode ==
    /\ codec.stage = "input"
    /\ LET packed == pack(codec.record, codec.buffer) IN
       codec' = [codec EXCEPT
                    !.stage = "encoded",
                    !.packed = packed.err,
                    !.buffer = IF packed.err = "Ok" THEN packed.val ELSE @]
    /\ UNCHANGED <<lamports, owner, data, tokenAuthority, rent_sysvar, pc, last>>

\* Escrow::unpack_unchecked(&buffer), as at processor.rs 73.
Decode ==
    /\ codec.stage = "encoded"
    /\ LET unpacked == unpack_unchecked(codec.buffer) IN
       codec' = [codec EXCEPT
                    !.stage = "decoded",
                    !.unpacked = unpacked.err,
                    !.decoded = IF unpacked.err = "Ok" THEN unpacked.val ELSE @]
    /\ UNCHANGED <<lamports, owner, data, tokenAuthority, rent_sysvar, pc, last>>

CodecNext == Encode \/ Decode

CodecSpec == CodecInit /\ [][CodecNext]_vars

(* ----------------------------------------------------------------- claims *)

\* The derived address this program hands custody to.
PDA == find_program_address("escrow", program_id)

\* A step of the host running one instruction.
ProcessStep == pc = "idle" /\ pc' = "returned"

\* The record a buffer of the right length holds.
RecordOf(buf) == unpack_from_slice(buf).val

Initialized(buf) == Len(buf) = Escrow_LEN /\ buf[1] = 1

TokenAccountOf(key) == {t \in TokenAccounts : Key(t) = key}

\* The payload is a well-formed InitializeEscrow of amount amt.
IsInitEscrowOf(payload, amt) ==
    /\ Len(payload) >= 1 + U64_BYTES
    /\ payload[1] = 0
    /\ \A i \in 1..U64_BYTES : payload[1 + i] = amt[U64_BYTES + 1 - i]

WellFormedPayload(payload) == \E amt \in Amounts : IsInitEscrowOf(payload, amt)

\* C1: every initialized escrow record names a temporary-custody account
\* whose authority is the derived address, in every reachable state: after
\* any later invocation and after any authority change a wallet signs.
C1_CustodyHeldByDerivedAddress ==
    \A e \in EscrowAccounts :
        Initialized(data[e]) =>
            /\ TokenAccountOf(RecordOf(data[e]).temp_token_account_pubkey) # {}
            /\ \A t \in TokenAccountOf(RecordOf(data[e]).temp_token_account_pubkey) :
                  tokenAuthority[t] = PDA

\* A later invocation by the recorded initializer, on the escrowed token
\* account, was turned down by the custody service.
C1_Witness ==
    /\ pc = "returned"
    /\ last.result = "OwnerMismatch"
    /\ \E e \in EscrowAccounts :
          /\ Initialized(data[e])
          /\ RecordOf(data[e]).temp_token_account_pubkey = Key(last.accounts[2].acct)
          /\ RecordOf(data[e]).initializer_pubkey = Key(last.accounts[1].acct)

\* C2: an invocation that returns an error leaves the record buffers and the
\* token authorities as they were; the record write and the authority change
\* take effect together, exactly when the invocation returns Ok.
C2_AtomicCommit ==
    [][ProcessStep =>
          /\ last'.result # "Ok" =>
                data' = data /\ tokenAuthority' = tokenAuthority
          /\ (data' # data) <=> (last'.result = "Ok")
          /\ (tokenAuthority' # tokenAuthority) <=> (last'.result = "Ok")]_vars

\* The nested call failed after the record had been encoded into the buffer.
C2_Witness ==
    /\ pc = "returned"
    /\ last.result = "OwnerMismatch"
    /\ last.written # {}
    /\ Len(last.cpi) = 1
    /\ \A e \in EscrowAccounts : ~Initialized(data[e])

\* The ledger before the step meets every precondition of InitializeEscrow
\* for the six accounts a, and the custody service will accept the change.
AllPreconditionsMet(a) ==
    /\ Len(a) = 6
    /\ a[1].is_signer
    /\ owner[a[3].acct] = spl_token_id
    /\ data[a[4].acct] = Zeroes(Escrow_LEN)
    /\ lamports[a[4].acct] >=
         (ACCOUNT_STORAGE_OVERHEAD + Escrow_LEN)
            * rent_sysvar.lamports_per_byte_year * EXEMPTION_THRESHOLD
    /\ Key(a[5].acct) = rent_id
    /\ Key(a[6].acct) = spl_token_id
    /\ a[2].acct \in TokenAccounts
    /\ tokenAuthority[a[2].acct] = Key(a[1].acct)

\* C3: for every amount, InitializeEscrow with a signing initializer, an
\* account to receive owned by the custody service, a zeroed rent-exempt
\* record account, the rent account and a custody service that accepts the
\* change returns Ok; the record then holds the flag, the three keys of the
\* accounts supplied and the amount, byte for byte as the payload gave it; and
\* one authority change was asked for: the temporary account to the derived
\* address, with the initializer as present authority and signer.
C3_InitEscrowSucceeds ==
    [][\A amt \in Amounts :
          (/\ ProcessStep
           /\ IsInitEscrowOf(last'.instruction_data, amt)
           /\ AllPreconditionsMet(last'.accounts))
          => LET a == last'.accounts
                 buf == data'[a[4].acct]
             IN /\ last'.result = "Ok"
                /\ Len(buf) = Escrow_LEN
                /\ buf[1] = 1
                /\ SubSeq(buf, 2, 33) = Key(a[1].acct)
                /\ SubSeq(buf, 34, 65) = Key(a[2].acct)
                /\ SubSeq(buf, 66, 97) = Key(a[3].acct)
                /\ SubSeq(buf, 98, 105) = SubSeq(last'.instruction_data, 2, 9)
                /\ RecordOf(buf) =
                     EscrowRecord(TRUE, Key(a[1].acct), Key(a[2].acct),
                                  Key(a[3].acct), amt)
                /\ last'.cpi =
                     <<[program_id |-> spl_token_id,
                        account |-> Key(a[2].acct),
                        new_authority |-> PDA,
                        authority_type |-> "AccountOwner",
                        owner |-> Key(a[1].acct),
                        signers |-> <<Key(a[1].acct)>>]>>
                /\ tokenAuthority'[a[2].acct] = PDA]_vars

\* An escrow of 2^64-1 was set up.
C3_Witness ==
    /\ pc = "returned"
    /\ last.result = "Ok"
    /\ IsInitEscrowOf(last.instruction_data, U64_MAX)
    /\ RecordOf(data[last.accounts[4].acct]).expected_amount = U64_MAX
    /\ Len(last.cpi) = 1

\* C4: a record buffer that holds an initialized record never changes again,
\* whatever is invoked on it.
C4_InitializedRecordFrozen ==
    [][\A e \in EscrowAccounts : Initialized(data[e]) => data'[e] = data[e]]_vars

\* A second InitializeEscrow, by another initializer with another token
\* account, was invoked on a slot that already held a record.
C4_Witness ==
    /\ pc = "returned"
    /\ Len(last.accounts) = 6
    /\ WellFormedPayload(last.instruction_data)
    /\ Initialized(data[last.accounts[4].acct])
    /\ RecordOf(data[last.accounts[4].acct]).initializer_pubkey
          # Key(last.accounts[1].acct)
    /\ RecordOf(data[last.accounts[4].acct]).temp_token_account_pubkey
          # Key(last.accounts[2].acct)
    /\ last.accounts[1].is_signer
    /\ last.accounts[2].acct \in TokenAccounts
    /\ tokenAuthority[last.accounts[2].acct] = Key(last.accounts[1].acct)
    /\ last.result # "Ok"

\* C5: InitializeEscrow on a record account that is already initialized, with
\* a signing initializer, an account to receive owned by the custody service,
\* the rent account and a rent-exempt record account, returns
\* AccountAlreadyInitialized for every amount, with nothing written to the
\* buffer and no authority change asked for.
C5_AlreadyInitializedRejected ==
    [][(/\ ProcessStep
        /\ WellFormedPayload(last'.instruction_data)
        /\ Len(last'.accounts) >= 5
        /\ last'.accounts[1].is_signer
        /\ owner[last'.accounts[3].acct] = spl_token_id
        /\ Key(last'.accounts[5].acct) = rent_id
        /\ lamports[last'.accounts[4].acct] >=
             (ACCOUNT_STORAGE_OVERHEAD + Escrow_LEN)
                * rent_sysvar.lamports_per_byte_year * EXEMPTION_THRESHOLD
        /\ Initialized(data[last'.accounts[4].acct]))
       => /\ last'.result = "AccountAlreadyInitialized"
          /\ last'.written = {}
          /\ last'.cpi = <<>>
          /\ data' = data
          /\ tokenAuthority' = tokenAuthority]_vars

\* The rejection, on a call whose six accounts were otherwise in order.
C5_Witness ==
    /\ pc = "returned"
    /\ last.result = "AccountAlreadyInitialized"
    /\ Len(last.accounts) = 6
    /\ Key(last.accounts[6].acct) = spl_token_id
    /\ IsInitEscrowOf(last.instruction_data, U64_ZERO)

\* C6: InitializeEscrow whose initializer reference does not carry the signer
\* flag returns MissingRequiredSignature, for every amount and whatever the
\* other accounts are; nothing is written and no authority change asked for.
C6_MissingSignature ==
    (/\ pc = "returned"
     /\ WellFormedPayload(last.instruction_data)
     /\ Len(last.accounts) >= 1
     /\ ~last.accounts[1].is_signer)
    => /\ last.result = "MissingRequiredSignature"
       /\ last.written = {}
       /\ last.cpi = <<>>

\* The signature was missing on a call that would otherwise have succeeded.
C6_Witness ==
    /\ pc = "returned"
    /\ last.result = "MissingRequiredSignature"
    /\ Len(last.accounts) = 6
    /\ AllPreconditionsMet(
          [last.accounts EXCEPT ![1] = AccountInfo(last.accounts[1].acct, TRUE)])

\* The record account at position 4 of a falls short of the rent exemption
\* threshold for its data length.
UnderFunded(a) ==
    lamports[a[4].acct] <
        (ACCOUNT_STORAGE_OVERHEAD + Len(data[a[4].acct]))
            * rent_sysvar.lamports_per_byte_year * EXEMPTION_THRESHOLD

\* C7 as stated: an account to receive that the custody service does not own
\* gives IncorrectProgramId whatever the initializer's signer flag, the
\* record account and the later accounts are.
C7_AsStated ==
    (/\ pc = "returned"
     /\ WellFormedPayload(last.instruction_data)
     /\ Len(last.accounts) >= 3
     /\ owner[last.accounts[3].acct] # spl_token_id)
    => last.result = "IncorrectProgramId"

\* C7: an account to receive that the custody service does not own gives
\* IncorrectProgramId when the initializer has signed, whatever the record
\* account's balance and state and the later accounts are, with nothing
\* written and no authority change asked for; when the initializer has not
\* signed, the result is MissingRequiredSignature.
C7_IncorrectProgramId ==
    (/\ pc = "returned"
     /\ WellFormedPayload(last.instruction_data)
     /\ Len(last.accounts) >= 3
     /\ owner[last.accounts[3].acct] # spl_token_id)
    => /\ last.written = {}
       /\ last.cpi = <<>>
       /\ last.consumed <= 3
       /\ IF last.accounts[1].is_signer
          THEN last.result = "IncorrectProgramId"
          ELSE last.result = "MissingRequiredSignature"

\* The owner test turned down a signed call on an initialized, under-funded
\* record account with a wrong rent account and a wrong program account.
C7_Witness ==
    /\ pc = "returned"
    /\ last.result = "IncorrectProgramId"
    /\ Len(last.accounts) = 6
    /\ Initialized(data[last.accounts[4].acct])
    /\ UnderFunded(last.accounts)
    /\ Key(last.accounts[5].acct) # rent_id
    /\ Key(last.accounts[6].acct) # spl_token_id

\* C8: a record account below the rent exemption threshold for its data
\* length is turned down with AccountNotRentExempt before its record is
\* looked at: never AccountAlreadyInitialized nor a decode error, even when
\* the record is initialized or the buffer does not decode; nothing is
\* written.  (The checks ahead of it pass: signer, owner, rent account.)
C8_RentBeforeRecord ==
    [][(/\ ProcessStep
        /\ WellFormedPayload(last'.instruction_data)
        /\ Len(last'.accounts) >= 4
        /\ UnderFunded(last'.accounts))
       => /\ last'.result \notin {"AccountAlreadyInitialized",
                                  "InvalidAccountData", "Ok"}
          /\ last'.written = {}
          /\ last'.cpi = <<>>
          /\ data' = data
          /\ (/\ Len(last'.accounts) >= 5
              /\ last'.accounts[1].is_signer
              /\ owner[last'.accounts[3].acct] = spl_token_id
              /\ Key(last'.accounts[5].acct) = rent_id)
             => last'.result = "AccountNotRentExempt"]_vars

\* The rent test turned down a record account that was already initialized.
C8_Witness ==
    /\ pc = "returned"
    /\ last.result = "AccountNotRentExempt"
    /\ Initialized(data[last.accounts[4].acct])
    /\ UnderFunded(last.accounts)

\* C9 as stated: with fewer than six accounts the result is the missing
\* account error, decided before any check, with nothing written.
C9_AsStated ==
    (/\ pc = "returned"
     /\ WellFormedPayload(last.instruction_data)
     /\ Len(last.accounts) < 6)
    => /\ last.result = "NotEnoughAccountKeys"
       /\ last.written = {}
       /\ last.cpi = <<>>

\* Every check the handler makes on the accounts that list a does hold.
PresentAccountsPass(a) ==
    /\ Len(a) >= 1 => a[1].is_signer
    /\ Len(a) >= 3 => owner[a[3].acct] = spl_token_id
    /\ Len(a) >= 5 =>
          /\ Key(a[5].acct) = rent_id
          /\ ~UnderFunded(a)
          /\ Len(data[a[4].acct]) = Escrow_LEN
          /\ ~Initialized(data[a[4].acct])

\* C9: with fewer than six accounts the invocation fails, asks for no
\* authority change and leaves the committed record and authorities as they
\* were.  The error is the missing account error exactly when every check on
\* the accounts that are present passes, raised where the list runs out
\* (for the empty list: before any check); otherwise it is the error of the
\* first check that fails.  Only a list of five accounts that pass every
\* check has the record encoded into the buffer before the missing sixth is
\* noticed, and that write is discarded with the failed instruction.
C9_TooFewAccounts ==
    [][(/\ ProcessStep
        /\ WellFormedPayload(last'.instruction_data)
        /\ Len(last'.accounts) < 6)
       => /\ last'.result \in {"NotEnoughAccountKeys", "MissingRequiredSignature",
                               "IncorrectProgramId", "InvalidArgument",
                               "AccountNotRentExempt", "InvalidAccountData",
                               "AccountAlreadyInitialized"}
          /\ last'.cpi = <<>>
          /\ data' = data
          /\ tokenAuthority' = tokenAuthority
          /\ (last'.result = "NotEnoughAccountKeys")
                <=> PresentAccountsPass(last'.accounts)
          /\ last'.result = "NotEnoughAccountKeys"
                => last'.consumed = Len(last'.accounts)
          /\ (last'.written # {})
                <=> (Len(last'.accounts) = 5 /\ PresentAccountsPass(last'.accounts))]_vars

\* Five accounts in order: the record was encoded, then the sixth was missed.
C9_Witness ==
    /\ pc = "returned"
    /\ Len(last.accounts) = 5
    /\ last.result = "NotEnoughAccountKeys"
    /\ last.written # {}
    /\ ~Initialized(data[last.accounts[4].acct])

\* The payload does not decode: it is empty, its tag is unknown, or it is
\* shorter than the tag and the eight bytes of the amount.
Malformed(payload) ==
    \/ Len(payload) = 0
    \/ payload[1] # 0
    \/ Len(payload) < 1 + U64_BYTES

\* C10: a malformed payload gives InvalidInstructionData whatever the account
\* list is, with no account reference taken from the list, nothing written
\* and no authority change asked for.
C10_MalformedPayload ==
    (pc = "returned" /\ Malformed(last.instruction_data))
    => /\ last.result = "InvalidInstructionData"
       /\ last.consumed = 0
       /\ last.written = {}
       /\ last.cpi = <<>>

\* An unknown tag on a call whose six accounts would have set up an escrow.
C10_Witness ==
    /\ pc = "returned"
    /\ last.result = "InvalidInstructionData"
    /\ Len(last.instruction_data) = 1 + U64_BYTES
    /\ last.instruction_data[1] = 1
    /\ AllPreconditionsMet(last.accounts)

\* The buffer holds a whole record: the flag set, the key of a wallet, of a
\* token account and of an account the custody service owns, and an amount.
FullyPopulated(buf) ==
    /\ Len(buf) = Escrow_LEN
    /\ buf[1] = 1
    /\ SubSeq(buf, 2, 33) \in {Key(w) : w \in Wallets}
    /\ SubSeq(buf, 34, 65) \in {Key(t) : t \in TokenAccounts}
    /\ SubSeq(buf, 66, 97) \in {Key(a) : a \in {x \in Accounts : owner[x] = spl_token_id}}
    /\ \E amt \in Amounts :
          \A i \in 1..U64_BYTES : buf[97 + i] = amt[U64_BYTES + 1 - i]

EntirelyZero(buf) == \A i \in 1..Len(buf) : buf[i] = 0

\* C11: in every state between invocations each record buffer is entirely
\* zero or holds a whole record; after a successful InitializeEscrow the slot
\* holds the three keys and the amount of that invocation, and after a failed
\* one that had encoded the record the slot is entirely zero again.
C11_ZeroOrFullyPopulated ==
    /\ \A e \in EscrowAccounts : EntirelyZero(data[e]) \/ FullyPopulated(data[e])
    /\ (pc = "returned" /\ last.result = "Ok") =>
          LET a == last.accounts
              buf == data[a[4].acct]
          IN /\ FullyPopulated(buf)
             /\ SubSeq(buf, 2, 33) = Key(a[1].acct)
             /\ SubSeq(buf, 34, 65) = Key(a[2].acct)
             /\ SubSeq(buf, 66, 97) = Key(a[3].acct)
             /\ SubSeq(buf, 98, 105) = SubSeq(last.instruction_data, 2, 9)
    /\ (pc = "returned" /\ last.result # "Ok" /\ last.written # {}) =>
          EntirelyZero(data[last.accounts[4].acct])

\* One slot holds a record; on the other a failed invocation had encoded one,
\* and the slot is entirely zero.
C11_Witness ==
    /\ pc = "returned"
    /\ last.result # "Ok"
    /\ last.written # {}
    /\ EntirelyZero(data[last.accounts[4].acct])
    /\ \E e \in EscrowAccounts : FullyPopulated(data[e])

CustodyReply(instruction, accounts) ==
    token_process_set_authority(
        instruction,
        {Key(accounts[i].acct) : i \in {j \in 1..Len(accounts) : accounts[j].is_signer}},
        tokenAuthority).err

\* C13: when the authority-change call fails, process returns the custody
\* service's failure unchanged, the call was made once, and after the rollback
\* the slot is still uninitialized: InitEscrow on the same slot, by any wallet
\* that signs and offers a token account it holds, then succeeds.
C13_CpiFailurePropagated ==
    (pc = "returned" /\ last.cpi # <<>> /\ last.result # "Ok") =>
        LET a == last.accounts IN
        /\ Len(last.cpi) = 1
        /\ CustodyReply(last.cpi[1], a) # "Ok"
        /\ last.result = CustodyReply(last.cpi[1], a)
        /\ ~Initialized(data[a[4].acct])
        /\ \A w \in Wallets, t \in TokenAccounts :
              tokenAuthority[t] = Key(w) =>
                 process(program_id,
                         <<AccountInfo(w, TRUE), AccountInfo(t, FALSE),
                           a[3], a[4], a[5], a[6]>>,
                         last.instruction_data).result = "Ok"

\* The custody service refused with OwnerMismatch a temporary account that is
\* not the initializer's, and bob still holds tokB to try the slot again.
C13_Witness ==
    /\ pc = "returned"
    /\ last.cpi # <<>>
    /\ last.result = "OwnerMismatch"
    /\ last.written # {}
    /\ ~Initialized(data[last.accounts[4].acct])
    /\ tokenAuthority["tokB"] = Key("bob")

\* A step that changes the authority of token account t and nothing else of
\* the ledger: the states before and after it differ only there.
OnlyAuthorityOfChanges(t) ==
    /\ tokenAuthority'[t] # tokenAuthority[t]
    /\ \A u \in TokenAccounts \ {t} : tokenAuthority'[u] = tokenAuthority[u]
    /\ UNCHANGED <<lamports, owner, data, rent_sysvar>>

\* C14: take two ledgers that differ only in the current authority of the
\* temporary account.  The same invocation on both either fails with the same
\* error before the authority-change call, or writes the same record and
\* asks for the same authority change; its result is then the custody
\* service's reply on that ledger.
C14_ValidationIgnoresCustodyAuthority ==
    [][\A t \in TokenAccounts :
          OnlyAuthorityOfChanges(t) =>
             \A a \in AccountLists, p \in Payloads :
                (Len(a) >= 2 /\ a[2].acct = t) =>
                   LET before == process(program_id, a, p)
                       after == process(program_id, a, p)'
                   IN /\ before.cpi = after.cpi
                      /\ before.data = after.data
                      /\ before.consumed = after.consumed
                      /\ IF before.cpi = <<>>
                         THEN before.result = after.result /\ before.result # "Ok"
                         ELSE /\ before.result = CustodyReply(before.cpi[1], a)
                              /\ after.result = CustodyReply(before.cpi[1], a)'
      ]_vars

\* alice offered tokA after handing it to bob: the record was written and the
\* call made as they would have been before, and only the custody service
\* refused.
C14_Witness ==
    /\ pc = "returned"
    /\ Len(last.accounts) = 6
    /\ last.accounts[1].acct = "alice"
    /\ last.accounts[2].acct = "tokA"
    /\ tokenAuthority["tokA"] = Key("bob")
    /\ last.written # {}
    /\ last.cpi # <<>>
    /\ last.cpi[1].owner = Key("alice")
    /\ last.result = "OwnerMismatch"

\* C15: an invocation, successful or not, changes nothing but the data of the
\* record account at position 4 and the authority of the temporary account at
\* position 2: balances, owners and the rent account keep their values, and
\* so do every other record account and every other token account, the
\* account to receive among them; a failed invocation changes nothing at all.
C15_Frame ==
    [][ProcessStep =>
          LET a == last'.accounts IN
          /\ UNCHANGED <<lamports, owner, rent_sysvar>>
          /\ \A e \in EscrowAccounts :
                data'[e] # data[e] => (Len(a) >= 4 /\ e = a[4].acct)
          /\ \A t \in TokenAccounts :
                tokenAuthority'[t] # tokenAuthority[t] =>
                   (Len(a) >= 2 /\ t = a[2].acct)
          /\ last'.result # "Ok" => UNCHANGED <<data, tokenAuthority>>
      ]_vars

\* bob escrowed tokB in esc2 while esc1 was initialized and tokA escrowed:
\* esc1, tokA and the account to receive are as they were.
C15_Witness ==
    /\ pc = "returned"
    /\ last.result = "Ok"
    /\ last.accounts[1].acct = "bob"
    /\ last.accounts[2].acct = "tokB"
    /\ last.accounts[4].acct = "esc2"
    /\ Initialized(data["esc1"])
    /\ RecordOf(data["esc1"]).initializer_pubkey = Key("alice")
    /\ tokenAuthority["tokA"] = PDA
    /\ tokenAuthority["tokB"] = PDA
    /\ tokenAuthority["recv"] = Key("alice")

\* The steps of an invocation in the order they run, and whether each would
\* fail on account list a and payload p taken on its own; a step that reads
\* an account fails only when that account is there.
Steps == 1..14

ExpectedInstruction(a) ==
    set_authority(spl_token_id, Key(a[2].acct), PDA, "AccountOwner",
                  Key(a[1].acct), <<Key(a[1].acct)>>).val

StepFails(i, a, p) ==
    CASE i = 1 -> Malformed(p)
      [] i = 2 -> Len(a) < 1
      [] i = 3 -> Len(a) >= 1 /\ ~a[1].is_signer
      [] i = 4 -> Len(a) < 2
      [] i = 5 -> Len(a) < 3
      [] i = 6 -> Len(a) >= 3 /\ owner[a[3].acct] # spl_token_id
      [] i = 7 -> Len(a) < 4
      [] i = 8 -> Len(a) < 5 \/ Key(a[5].acct) # rent_id
      [] i = 9 -> Len(a) >= 4 /\ UnderFunded(a)
      [] i = 10 -> Len(a) >= 4 /\ Len(data[a[4].acct]) # Escrow_LEN
      [] i = 11 -> Len(a) >= 4 /\ Initialized(data[a[4].acct])
      [] i = 12 -> Len(a) >= 4 /\ Len(data[a[4].acct]) # Escrow_LEN
      [] i = 13 -> Len(a) < 6
      [] i = 14 -> /\ Len(a) >= 6
                   /\ \/ Key(a[6].acct) # spl_token_id
                      \/ CustodyReply(ExpectedInstruction(a), a) # "Ok"

StepError(i, a, p) ==
    CASE i = 1 -> "InvalidInstructionData"
      [] i \in {2, 4, 5, 7, 13} -> "NotEnoughAccountKeys"
      [] i = 3 -> "MissingRequiredSignature"
      [] i = 6 -> "IncorrectProgramId"
      [] i = 8 -> IF Len(a) < 5 THEN "NotEnoughAccountKeys" ELSE "InvalidArgument"
      [] i = 9 -> "AccountNotRentExempt"
      [] i \in {10, 12} -> "InvalidAccountData"
      [] i = 11 -> "AccountAlreadyInitialized"
      [] i = 14 -> IF Key(a[6].acct) # spl_token_id
                   THEN "IncorrectProgramId"
                   ELSE CustodyReply(ExpectedInstruction(a), a)

\* Account references taken from the list when step i is the one that fails.
StepConsumed(i, a) ==
    CASE i \in {1, 2} -> 0
      [] i \in {3, 4} -> 1
      [] i = 5 -> 2
      [] i \in {6, 7} -> 3
      [] i = 8 -> IF Len(a) < 5 THEN 4 ELSE 5
      [] i \in 9..13 -> 5
      [] i = 14 -> 6

\* C16: the error returned is that of the first step, in the order payload
\* decode, initializer present, signer, temporary account present, account to
\* receive present, its owner, record account present, rent account present
\* and valid, rent exemption, record decode, already initialized, record
\* encode, token program account present, authority-change call, that fails
\* on the ledger as the invocation found it; no later step runs: no further
\* account is taken, the record is written only when the failing step comes
\* after the encode, and the call is made only at the last step.  When no
\* step fails the result is Ok.
C16_FirstFailingStep ==
    [][ProcessStep =>
          LET a == last'.accounts
              p == last'.instruction_data
          IN IF \A i \in Steps : ~StepFails(i, a, p)
             THEN last'.result = "Ok"
             ELSE LET first == CHOOSE i \in Steps :
                                   /\ StepFails(i, a, p)
                                   /\ \A j \in 1..(i - 1) : ~StepFails(j, a, p)
                  IN /\ last'.result = StepError(first, a, p)
                     /\ last'.consumed = StepConsumed(first, a)
                     /\ (last'.written # {}) <=> (first >= 13)
                     /\ last'.cpi # <<>> =>
                           /\ first = 14
                           /\ last'.cpi = <<ExpectedInstruction(a)>>
      ]_vars

\* An unsigned initializer, an account to receive and a rent account that are
\* a wallet, and a record already initialized: four steps fail and the
\* signer's error is the one returned.
C16_Witness ==
    /\ pc = "returned"
    /\ last.result = "MissingRequiredSignature"
    /\ Len(last.accounts) = 6
    /\ {3, 6, 8, 11, 14} \subseteq
          {i \in Steps : StepFails(i, last.accounts, last.instruction_data)}

\* The escrow slots other than e whose initialized record names key.
OtherSlotsNaming(key, e) ==
    {x \in EscrowAccounts \ {e} :
        Initialized(data[x]) /\ RecordOf(data[x]).temp_token_account_pubkey = key}

\* Everything the processor itself checks passes on list a: six accounts, a
\* signed initializer, a token-owned account to receive, a fresh rent-exempt
\* slot, the rent account and the token program.
ProcessorChecksPass(a) ==
    /\ Len(a) = 6
    /\ a[1].is_signer
    /\ owner[a[3].acct] = spl_token_id
    /\ data[a[4].acct] = Zeroes(Escrow_LEN)
    /\ ~UnderFunded(a)
    /\ Key(a[5].acct) = rent_id
    /\ Key(a[6].acct) = spl_token_id

\* C17: no two initialized escrow records name the same temporary account.
\* InitEscrow that offers, with a fresh slot and every other precondition met,
\* a temporary account that an initialized record already names is refused by
\* the custody service at the authority-change call (the initializer is no
\* longer its authority), and the fresh slot is left uninitialized.
C17_NoSharedCustody ==
    /\ \A e \in EscrowAccounts :
          Initialized(data[e]) =>
             OtherSlotsNaming(RecordOf(data[e]).temp_token_account_pubkey, e) = {}
    /\ (/\ pc = "returned"
        /\ WellFormedPayload(last.instruction_data)
        /\ ProcessorChecksPass(last.accounts)
        /\ OtherSlotsNaming(Key(last.accounts[2].acct), last.accounts[4].acct) # {})
       => /\ last.result = "OwnerMismatch"
          /\ Len(last.cpi) = 1
          /\ last.cpi[1].account = Key(last.accounts[2].acct)
          /\ last.written # {}
          /\ ~Initialized(data[last.accounts[4].acct])

\* tokB is escrowed in one slot and was offered again, by bob who had
\* escrowed it, with another slot that is fresh and funded.
C17_Witness ==
    /\ pc = "returned"
    /\ WellFormedPayload(last.instruction_data)
    /\ ProcessorChecksPass(last.accounts)
    /\ last.accounts[1].acct = "bob"
    /\ last.accounts[2].acct = "tokB"
    /\ OtherSlotsNaming(Key("tokB"), last.accounts[4].acct) # {}
    /\ last.result = "OwnerMismatch"
    /\ ~Initialized(data[last.accounts[4].acct])

\* The token accounts that initialized escrow records name.
EscrowedTokenAccounts ==
    UNION {TokenAccountOf(RecordOf(data[e]).temp_token_account_pubkey) :
              e \in {x \in EscrowAccounts : Initialized(data[x])}}

\* C18: the new authority named in every authority-change call is the address
\* derived from the seed "escrow" and the program id, whoever the initializer
\* and whatever the record account, the temporary account and the amount
\* are; the temporary accounts of any two successful escrows are under one
\* and the same authority.
C18_OneDerivedAuthority ==
    /\ (pc = "returned" /\ last.cpi # <<>>) =>
          /\ last.cpi[1].new_authority = find_program_address("escrow", program_id)
          /\ last.cpi[1].new_authority # Key(last.accounts[1].acct)
    /\ \A t1 \in EscrowedTokenAccounts, t2 \in EscrowedTokenAccounts :
          tokenAuthority[t1] = tokenAuthority[t2]

\* alice escrowed tokA in esc1 and bob tokB in esc2, for different amounts:
\* both token accounts are under the same authority.
C18_Witness ==
    /\ pc = "returned"
    /\ last.result = "Ok"
    /\ Initialized(data["esc1"])
    /\ Initialized(data["esc2"])
    /\ RecordOf(data["esc1"]).initializer_pubkey
          # RecordOf(data["esc2"]).initializer_pubkey
    /\ RecordOf(data["esc1"]).expected_amount
          # RecordOf(data["esc2"]).expected_amount
    /\ EscrowedTokenAccounts = {"tokA", "tokB"}
    /\ tokenAuthority["tokA"] = tokenAuthority["tokB"]

====
